---------------------------- MODULE Spec2Model ----------------------------
(***************************************************************************)
(* A model of three components of the repository:                          *)
(*   - the model-discovery client  (src/pixelle_video/utils/llm_util.py)   *)
(*   - the localization registry   (src/web/i18n/__init__.py)              *)
(*   - the TTS dual-backend dispatcher                                     *)
(*                                  (src/reelforge/services/tts_service.py)*)
(* Each component has its own specification (SpecLLM, SpecI18n, SpecTTS);  *)
(* the variables of the other components are held at their initial value.  *)
(*                                                                         *)
(* Python strings whose prefix or suffix the code inspects are sequences   *)
(* of one-character strings, so that str.startswith, str.endswith and      *)
(* str.rstrip are computed, not assumed.                                   *)
(***************************************************************************)
EXTENDS Integers, Sequences, FiniteSets, TLC

(***************************************************************************)
(* Python str operations on character sequences.                           *)
(***************************************************************************)
StartsWith(s, p) ==
    /\ Len(p) <= Len(s)
    /\ SubSeq(s, 1, Len(p)) = p

EndsWith(s, p) ==
    /\ Len(p) <= Len(s)
    /\ SubSeq(s, Len(s) - Len(p) + 1, Len(s)) = p

\* str.rstrip(c): every trailing occurrence of the character c is removed
RECURSIVE RStrip(_, _)
RStrip(s, c) ==
    IF Len(s) > 0 /\ s[Len(s)] = c
    THEN RStrip(SubSeq(s, 1, Len(s) - 1), c)
    ELSE s

\* all sequences over S of length at most n
RECURSIVE SeqsUpTo(_, _)
SeqsUpTo(S, n) ==
    IF n = 0 THEN {<<>>}
    ELSE LET shorter == SeqsUpTo(S, n - 1)
         IN  shorter \cup {Append(q, x) : q \in {r \in shorter : Len(r) = n - 1}, x \in S}

\* Optional values: <<>> is Python's None, <<v>> is the value v
NoneV == <<>>
Some(v) == <<v>>

\* dict.get(k, default) on a mapping held as a function
Get(d, k, default) == IF k \in DOMAIN d THEN d[k] ELSE default

\* dict.get(k): None for a missing key, and for a key whose value is null
GetOpt(d, k) == IF k \in DOMAIN d THEN d[k] ELSE NoneV

EmptyDict == <<>>

(***************************************************************************)
(* State.                                                                  *)
(***************************************************************************)
VARIABLES
    \* ---- model-discovery client (llm_util.py) ----
    llm_pc,          \* "idle", "fetching" (GET in flight), "done"
    base_url,        \* the base_url argument of the running call
    models_url,      \* the URL fetch_available_models requested
    server,          \* what came back for the GET
    probe,           \* the tuple test_llm_connection returned
    llm_raised,      \* TRUE iff test_llm_connection raised to its caller
    \* ---- localization registry (web/i18n/__init__.py) ----
    locales,         \* _locales: language code -> locale mapping
    current_language,\* _current_language
    i18n_call,       \* the last call made to the registry and what it gave
    \* ---- TTS service (reelforge/services/tts_service.py) ----
    default_workflow,\* the configured default workflow (tts.default)
    workflow_files,  \* names the shared resolution routine finds as workflow files
    tts_pc,          \* "idle", "await_edge", "await_engine", "await_download", "done"
    args,            \* the arguments of the running call
    branch,          \* the backend __call__ chose: "none", "edge", "workflow"
    resolve_call,    \* the last _resolve_workflow call and what it gave
    workflow_input,  \* what was handed to the engine
    workflow_params, \* the parameter mapping handed to the engine with it
    edge_params,     \* the keyword arguments handed to the local synthesis routine
    edge_output,     \* the output path handed to the local synthesis routine
    edge_calls,      \* invocations of the local synthesis routine
    engine_calls,    \* invocations of the workflow engine
    downloads,       \* artifact downloads started
    engine_result,   \* the engine's result
    audio_path,      \* the artifact selected from the result
    http_response,   \* the answer to the artifact download
    fault,           \* the collaborator that failed in this call, if one did
    written,         \* the bytes written to the output path in this call
    returned,        \* the path returned to the caller
    raised           \* the error propagated to the caller

varsLLM == <<llm_pc, base_url, models_url, server, probe, llm_raised>>
varsI18n == <<locales, current_language, i18n_call>>
varsTTS == <<default_workflow, workflow_files, tts_pc, args, branch, resolve_call,
             workflow_input, workflow_params, edge_params, edge_output, edge_calls, engine_calls, downloads,
             engine_result, audio_path, http_response, fault, written, returned, raised>>

vars == <<varsLLM, varsI18n, varsTTS>>

(***************************************************************************)
(* Bounds of the model.                                                    *)
(***************************************************************************)
MaxUrlLen == 5      \* longest base URL tried
MaxModels == 2      \* most entries in the "data" array of a listing
MaxEntries == 2     \* most entries an engine result holds, over all its fields

(***************************************************************************)
(* Model-discovery client.                                                 *)
(***************************************************************************)
UrlChars == {"/", "v", "1", "a"}
BaseUrls == SeqsUpTo(UrlChars, MaxUrlLen)

SlashV1       == <<"/", "v", "1">>
SlashModels   == <<"/", "m", "o", "d", "e", "l", "s">>
SlashV1Models == SlashV1 \o SlashModels

\* llm_util.py 42-50, with the trailing slash left in place
ModelsUrlNoStrip(b) ==
    IF EndsWith(b, SlashV1) THEN b \o SlashModels ELSE b \o SlashV1Models

\* llm_util.py 42-50: the endpoint fetch_available_models requests
ModelsUrl(b) ==
    LET stripped == RStrip(b, "/")
    IN  IF EndsWith(stripped, SlashV1)
        THEN stripped \o SlashModels
        ELSE stripped \o SlashV1Models

\* what the server (or the transport) can answer
ModelIds == {"ada", "gpt"}
NoId == "<no id>"           \* an entry of "data" without an "id" member
IdLess(a, b) == a = "ada" /\ b = "gpt"      \* str < str on ModelIds

StatusCodes == {200, 401, 403, 404, 500}
Bodies ==
    {[json |-> "malformed", data |-> <<>>], [json |-> "no data", data |-> <<>>]}
    \cup {[json |-> "object", data |-> d] : d \in SeqsUpTo(ModelIds \cup {NoId}, MaxModels)}

NoBody == [json |-> "malformed", data |-> <<>>]
Responses ==
    {[kind |-> "response", status |-> 200, body |-> b] : b \in Bodies}
    \cup {[kind |-> "response", status |-> c, body |-> NoBody] : c \in StatusCodes \ {200}}
TransportErrors ==
    {[kind |-> k, status |-> 0, body |-> NoBody] :
        k \in {"ConnectError", "ConnectTimeout", "ReadTimeout", "ReadError"}}

Returned(models) == [kind |-> "return", models |-> models, exc |-> "", code |-> 0, text |-> ""]
Raised(exc, code, text) == [kind |-> "raise", models |-> <<>>, exc |-> exc, code |-> code, text |-> text]

\* llm_util.py 59-70: what fetch_available_models does with the answer
FetchOutcome(r) ==
    IF r.kind # "response" THEN Raised(r.kind, 0, r.kind)        \* client.get raises
    ELSE IF r.status # 200 THEN Raised("HTTPStatusError", r.status, "status") \* raise_for_status
    ELSE IF r.body.json = "malformed" THEN Raised("JSONDecodeError", 0, "Expecting value")
    ELSE IF \E i \in 1..Len(r.body.data) : r.body.data[i] = NoId
         THEN Raised("KeyError", 0, "'id'")
    ELSE Returned(SortSeq(r.body.data, IdLess))

\* the exception classes of the except clauses and their subclasses
IsInstance(exc, cls) ==
    \/ exc = cls
    \/ cls = "TimeoutException" /\ exc \in {"ConnectTimeout", "ReadTimeout"}
    \/ cls = "Exception"

Msg(text, code, detail) == [text |-> text, code |-> code, detail |-> detail]

\* llm_util.py 88-107 with the catch-all handler missing
TestResultNoCatchAll(o) ==
    IF o.kind = "return"
    THEN [raised |-> FALSE, success |-> TRUE,
          message |-> Msg("Connection successful! {n} models available.", Len(o.models), ""),
          count |-> Len(o.models)]
    ELSE IF IsInstance(o.exc, "HTTPStatusError")
    THEN [raised |-> FALSE, success |-> FALSE, count |-> 0, message |->
            IF o.code = 401 THEN Msg("Authentication failed: Invalid API Key", 0, "")
            ELSE IF o.code = 403 THEN Msg("Access forbidden: Check your API Key permissions", 0, "")
            ELSE IF o.code = 404 THEN Msg("API endpoint not found: Check your Base URL", 0, "")
            ELSE Msg("API error: HTTP {status_code}", o.code, "")]
    ELSE IF IsInstance(o.exc, "ConnectError")
    THEN [raised |-> FALSE, success |-> FALSE, count |-> 0,
          message |-> Msg("Connection failed: Cannot reach the server", 0, "")]
    ELSE IF IsInstance(o.exc, "TimeoutException")
    THEN [raised |-> FALSE, success |-> FALSE, count |-> 0,
          message |-> Msg("Connection timeout: Server did not respond in time", 0, "")]
    ELSE [raised |-> TRUE, success |-> FALSE, count |-> 0, message |-> Msg("", 0, "")]

\* llm_util.py 88-107: the try/except ladder of test_llm_connection
TestResult(o) ==
    IF o.kind = "return"
    THEN [raised |-> FALSE, success |-> TRUE,
          message |-> Msg("Connection successful! {n} models available.", Len(o.models), ""),
          count |-> Len(o.models)]
    ELSE IF IsInstance(o.exc, "HTTPStatusError")
    THEN [raised |-> FALSE, success |-> FALSE, count |-> 0, message |->
            IF o.code = 401 THEN Msg("Authentication failed: Invalid API Key", 0, "")
            ELSE IF o.code = 403 THEN Msg("Access forbidden: Check your API Key permissions", 0, "")
            ELSE IF o.code = 404 THEN Msg("API endpoint not found: Check your Base URL", 0, "")
            ELSE Msg("API error: HTTP {status_code}", o.code, "")]
    ELSE IF IsInstance(o.exc, "ConnectError")
    THEN [raised |-> FALSE, success |-> FALSE, count |-> 0,
          message |-> Msg("Connection failed: Cannot reach the server", 0, "")]
    ELSE IF IsInstance(o.exc, "TimeoutException")
    THEN [raised |-> FALSE, success |-> FALSE, count |-> 0,
          message |-> Msg("Connection timeout: Server did not respond in time", 0, "")]
    ELSE IF IsInstance(o.exc, "Exception")
    THEN [raised |-> FALSE, success |-> FALSE, count |-> 0,
          message |-> Msg("Error: {str(e)}", 0, o.text)]
    ELSE [raised |-> TRUE, success |-> FALSE, count |-> 0, message |-> Msg("", 0, "")]

NoProbe == [raised |-> FALSE, success |-> FALSE, count |-> 0, message |-> Msg("", 0, "")]
NoServer == [kind |-> "none", status |-> 0, body |-> NoBody]

InitLLM ==
    /\ llm_pc = "idle"
    /\ base_url = <<>>
    /\ models_url = <<>>
    /\ server = NoServer
    /\ probe = NoProbe
    /\ llm_raised = FALSE

\* test_llm_connection(api_key, b) is called; fetch_available_models builds the
\* endpoint and sends the GET (llm_util.py 88-89, 42-60)
TestLLMConnection(b) ==
    /\ llm_pc = "idle"
    /\ llm_pc' = "fetching"
    /\ base_url' = b
    /\ models_url' = ModelsUrl(b)
    /\ UNCHANGED <<server, probe, llm_raised>>
    /\ UNCHANGED <<varsI18n, varsTTS>>

\* the rest of the call once the GET has an answer r (llm_util.py 60-70, 90-107)
Finish(r) ==
    /\ llm_pc = "fetching"
    /\ llm_pc' = "done"
    /\ server' = r
    /\ LET t == TestResult(FetchOutcome(r))
       IN  /\ llm_raised' = t.raised
           /\ probe' = IF t.raised THEN NoProbe ELSE t
    /\ UNCHANGED <<base_url, models_url>>
    /\ UNCHANGED <<varsI18n, varsTTS>>

\* the server answers with a status and a body
ServerResponds == \E r \in Responses : Finish(r)

\* the transport fails: connection refused, a timeout, a broken read
TransportFails == \E r \in TransportErrors : Finish(r)

(***************************************************************************)
(* Localization registry.                                                  *)
(***************************************************************************)
DefaultLang == "en_US"
InitialLang == "zh_CN"
LangCodes == {"zh_CN", "en_US"}          \* locale files that may be present
OtherCodes == {"fr_FR"}                  \* a code with no locale file
Keys == {"k1", "k2"}                     \* keys a locale file may define
AllKeys == Keys \cup {"k3"}              \* k3 is defined nowhere

\* A translation string is a sequence of tokens: literal text, or one of the
\* replacement fields str.format understands.
Fields == {"{name}", "{other}", "{0}"}
Lit(x) == <<x>>
TextOf(lang, k) == <<lang, ":", k>>
TemplateOf(lang, k) == <<lang, ":", k, " ", "{name}">>
ValuesOf(lang, k) == {NoneV, Some(<<>>), Some(TextOf(lang, k)), Some(TemplateOf(lang, k))}

\* the "t" mappings a locale file of language lang may hold (a null value
\* is a key present with value None)
TMaps(lang) ==
    UNION {{f \in [K -> UNION {ValuesOf(lang, k) : k \in K}] :
                \A k \in K : f[k] \in ValuesOf(lang, k)} : K \in SUBSET Keys}

\* the display name a locale file gives its language
NameOf(lang) == <<"name of ", lang>>

\* a locale file: with or without its "t" member, with or without its
\* "language_name" member
LocaleFiles(lang) ==
    {EmptyDict} \cup {[t |-> m] : m \in TMaps(lang)}
        \cup {[language_name |-> NameOf(lang)],
               [language_name |-> NameOf(lang), t |-> [k \in Keys |-> Some(TextOf(lang, k))]]}

Fallbacks == {NoneV, Some(<<>>), Some(<<"fb">>), Some(<<"fb ", "{0}">>)}
KwargSets == {EmptyDict, [name |-> <<"x">>]}

\* str.format(**kwargs): the replacement fields are filled left to right;
\* "{0}" finds no positional argument (IndexError), a field that is not a
\* keyword raises KeyError
RECURSIVE Format(_, _)
Format(s, kwargs) ==
    IF Len(s) = 0 THEN [err |-> "", out |-> <<>>]
    ELSE LET tok  == Head(s)
             name == IF tok = "{name}" THEN "name" ELSE "other"
         IN  IF tok = "{0}" THEN [err |-> "IndexError", out |-> <<>>]
             ELSE IF tok \in Fields /\ name \notin DOMAIN kwargs
                  THEN [err |-> "KeyError", out |-> <<>>]
             ELSE LET rest == Format(Tail(s), kwargs)
                      here == IF tok \in Fields THEN kwargs[name] ELSE <<tok>>
                  IN  IF rest.err # "" THEN rest
                      ELSE [err |-> "", out |-> here \o rest.out]

\* i18n 69-86 with the English fallback tried before the fallback argument
LookupEnglishFirst(key, fallback) ==
    LET locale == Get(locales, current_language, EmptyDict)
        translations == Get(locale, "t", EmptyDict)
        result == GetOpt(translations, key)
        en == IF current_language # DefaultLang /\ DefaultLang \in DOMAIN locales
              THEN GetOpt(Get(locales[DefaultLang], "t", EmptyDict), key)
              ELSE NoneV
    IN  IF result # NoneV THEN result[1]
        ELSE IF en # NoneV THEN en[1]
        ELSE IF fallback # NoneV THEN fallback[1]
        ELSE Lit(key)

\* i18n 69-86: the lookup of tr, before interpolation
Lookup(key, fallback) ==
    LET locale == Get(locales, current_language, EmptyDict)
        translations == Get(locale, "t", EmptyDict)
        result == GetOpt(translations, key)
        second ==
            IF result # NoneV THEN result
            ELSE IF fallback # NoneV THEN fallback
            ELSE IF current_language # DefaultLang /\ DefaultLang \in DOMAIN locales
                 THEN GetOpt(Get(locales[DefaultLang], "t", EmptyDict), key)
            ELSE NoneV
    IN  IF second = NoneV THEN Lit(key) ELSE second[1]

\* i18n 53-95: tr(key, fallback, **kwargs)
TrResult(key, fallback, kwargs) ==
    LET result == Lookup(key, fallback)
        f == Format(result, kwargs)
    IN  IF kwargs = EmptyDict THEN [raised |-> FALSE, result |-> result]
        ELSE IF f.err = "" THEN [raised |-> FALSE, result |-> f.out]
        ELSE IF f.err \in {"KeyError", "ValueError"} THEN [raised |-> FALSE, result |-> result]
        ELSE [raised |-> TRUE, result |-> <<>>]

NoCall == [op |-> "none", key |-> "", fallback |-> NoneV, kwargs |-> EmptyDict,
           raised |-> FALSE, result |-> <<>>, lang_code |-> NoneV, names |-> EmptyDict]

\* the registry as the other components' specifications hold it
InitI18nIdle ==
    /\ locales = EmptyDict
    /\ current_language = InitialLang
    /\ i18n_call = NoCall

\* the module after import: load_locales() has read the locale files present
InitI18n ==
    /\ \E present \in SUBSET LangCodes :
         locales \in {f \in [present -> UNION {LocaleFiles(l) : l \in present}] :
                        \A l \in present : f[l] \in LocaleFiles(l)}
    /\ current_language = InitialLang
    /\ i18n_call = NoCall

\* set_language with no test of the code against the loaded locales
SetLanguageUnchecked(lang_code) ==
    /\ current_language' = lang_code
    /\ i18n_call' = [NoCall EXCEPT !.op = "set_language", !.key = lang_code]
    /\ UNCHANGED locales
    /\ UNCHANGED <<varsLLM, varsTTS>>

\* i18n 38-45
SetLanguage(lang_code) ==
    /\ current_language' = IF lang_code \in DOMAIN locales THEN lang_code ELSE current_language
    /\ i18n_call' = [NoCall EXCEPT !.op = "set_language", !.key = lang_code]
    /\ UNCHANGED locales
    /\ UNCHANGED <<varsLLM, varsTTS>>

\* i18n 53-95
Tr(key, fallback, kwargs) ==
    /\ LET r == TrResult(key, fallback, kwargs)
       IN  i18n_call' = [NoCall EXCEPT !.op = "tr", !.key = key, !.fallback = fallback,
                                       !.kwargs = kwargs, !.raised = r.raised,
                                       !.result = r.result]
    /\ UNCHANGED <<locales, current_language>>
    /\ UNCHANGED <<varsLLM, varsTTS>>

\* i18n 48-50
GetLanguage ==
    /\ i18n_call' = [NoCall EXCEPT !.op = "get_language", !.result = Lit(current_language)]
    /\ UNCHANGED <<locales, current_language>>
    /\ UNCHANGED <<varsLLM, varsTTS>>

\* i18n 100-104: the display name of a language, the code itself when the
\* locale is not loaded or gives no name
LanguageName(lang_code) ==
    LET code == IF lang_code = NoneV THEN current_language ELSE lang_code[1]
        locale == Get(locales, code, EmptyDict)
    IN  Get(locale, "language_name", Lit(code))

\* i18n 98-104
GetLanguageName(lang_code) ==
    /\ i18n_call' = [NoCall EXCEPT !.op = "get_language_name", !.lang_code = lang_code,
                                   !.result = LanguageName(lang_code)]
    /\ UNCHANGED <<locales, current_language>>
    /\ UNCHANGED <<varsLLM, varsTTS>>

\* i18n 109-112
AvailableLanguages ==
    [code \in DOMAIN locales |-> Get(locales[code], "language_name", Lit(code))]

\* i18n 107-112
GetAvailableLanguages ==
    /\ i18n_call' = [NoCall EXCEPT !.op = "get_available_languages",
                                   !.names = AvailableLanguages]
    /\ UNCHANGED <<locales, current_language>>
    /\ UNCHANGED <<varsLLM, varsTTS>>

(***************************************************************************)
(* TTS service: workflow resolution.                                       *)
(***************************************************************************)
BUILTIN_PROVIDERS == {"edge", "edge-tts"}

\* identifiers a caller may pass as workflow, or configure as the default
WorkflowNames == {"edge", "edge-tts", "Edge", "tts_a.json", "rh_1", "nope.json"}
RunningHubIds == {"rh_1"}
Workflows == {NoneV} \cup {Some(w) : w \in WorkflowNames}

NoInfo == [source |-> "none", key |-> "", path |-> "", workflow_id |-> ""]

Resolution(kind, provider, info, consulted) ==
    [kind |-> kind, provider |-> provider, info |-> info, consulted_parent |-> consulted]

\* ComfyBaseService._get_default_workflow: the configured default
GetDefaultWorkflow == default_workflow

\* ComfyBaseService._resolve_workflow: a workflow file, a remote workflow
\* id, or a "workflow not found" error
ParentResolve(w) ==
    IF w \in workflow_files
    THEN Resolution("info", "", [source |-> "selfhost", key |-> w, path |-> w, workflow_id |-> ""], TRUE)
    ELSE IF w \in RunningHubIds
    THEN Resolution("info", "", [source |-> "runninghub", key |-> w, path |-> "", workflow_id |-> w], TRUE)
    ELSE Resolution("error", "", NoInfo, TRUE)

\* tts_service.py 69-79 without the substitution of the default
ResolveNoDefault(workflow) ==
    LET w == IF workflow = NoneV THEN "" ELSE workflow[1]
    IN  IF w \in BUILTIN_PROVIDERS THEN Resolution("builtin", w, NoInfo, FALSE)
        ELSE ParentResolve(w)

\* tts_service.py 59-79: TTSService._resolve_workflow
ResolveWorkflow(workflow) ==
    LET w == IF workflow = NoneV THEN GetDefaultWorkflow ELSE workflow[1]
    IN  IF w \in BUILTIN_PROVIDERS THEN Resolution("builtin", w, NoInfo, FALSE)
        ELSE ParentResolve(w)

\* tts_service.py 143 with a workflow file of the same name taking precedence
IsBuiltinCallUnlessFile(workflow) ==
    LET w == IF workflow = NoneV THEN GetDefaultWorkflow ELSE workflow[1]
    IN  w \in BUILTIN_PROVIDERS /\ w \notin workflow_files

\* tts_service.py 143: the test that sends __call__ to the local routine
IsBuiltinCall(workflow) ==
    \/ (workflow # NoneV /\ workflow[1] \in BUILTIN_PROVIDERS)
    \/ (workflow = NoneV /\ GetDefaultWorkflow \in BUILTIN_PROVIDERS)

(***************************************************************************)
(* TTS service: paths, artifacts, engine results.                          *)
(***************************************************************************)
\* os.path.dirname: the head up to the last "/", less its trailing slashes
\* unless it is slashes only
RECURSIVE DirHead(_)
DirHead(path) ==
    IF Len(path) = 0 \/ path[Len(path)] = "/" THEN path
    ELSE DirHead(SubSeq(path, 1, Len(path) - 1))

Dirname(path) ==
    LET head == DirHead(path)
    IN  IF RStrip(head, "/") = <<>> THEN head ELSE RStrip(head, "/")

\* os.makedirs(d, exist_ok=True) raises FileNotFoundError for the empty name
MakedirsRaises(d) == Len(d) = 0

Truthy(opt) == opt # NoneV /\ Len(opt[1]) > 0

TempPath    == <<"/", "t", "m", "p", "/", "u", ".", "m", "p", "3">>      \* get_temp_path(uuid + ".mp3")
OutAbsolute == <<"/", "t", "/", "o", ".", "m", "p", "3">>
OutBare     == <<"o", ".", "m", "p", "3">>                  \* a file name with no directory
OutputPaths == {NoneV, Some(<<>>), Some(OutBare), Some(OutAbsolute)}

Http  == <<"h", "t", "t", "p", ":", "/", "/">>
Https == <<"h", "t", "t", "p", "s", ":", "/", "/">>
Mp3   == <<".", "m", "p", "3">>
Wav   == <<".", "w", "a", "v">>
Flac  == <<".", "f", "l", "a", "c">>

UrlMp3   == Http \o <<"h", "/", "a">> \o Mp3          \* http://h/a.mp3
UrlFlac  == Https \o <<"h", "/", "b">> \o Flac        \* https://h/b.flac
LocalWav == <<"/", "d", "/", "c">> \o Wav             \* /d/c.wav
NotesTxt == <<"n", ".", "t", "x", "t">>               \* n.txt

IsUrl(s) == StartsWith(s, Http) \/ StartsWith(s, Https)
IsAudioName(s) == EndsWith(s, Mp3) \/ EndsWith(s, Wav) \/ EndsWith(s, Flac)

\* a value of the outputs mapping: a string, or something else (a number, a dict)
StrValue(s) == [is_str |-> TRUE, v |-> s]
NonStrValue == [is_str |-> FALSE, v |-> <<>>]

ListEntries == {UrlMp3, UrlFlac, LocalWav, NotesTxt}
OutputValues == {StrValue(UrlFlac), StrValue(LocalWav), StrValue(NotesTxt), NonStrValue}

\* a field of the result: missing or None (NoneV), or a list
FieldLists(E, n) == {NoneV} \cup {Some(l) : l \in SeqsUpTo(E, n)}
FieldLen(f) == IF f = NoneV THEN 0 ELSE Len(f[1])

Statuses == {[status |-> "completed", msg |-> NoneV],
             [status |-> "failed", msg |-> NoneV],
             [status |-> "failed", msg |-> Some("")],
             [status |-> "error", msg |-> Some("boom")]}

EngineResults ==
    UNION {UNION {
        {[status |-> st.status, msg |-> st.msg, audios |-> a, files |-> f, outputs |-> o] :
            st \in Statuses,
            o \in FieldLists(OutputValues, MaxEntries - FieldLen(a) - FieldLen(f))} :
        f \in FieldLists(ListEntries, MaxEntries - FieldLen(a))} :
        a \in FieldLists(ListEntries, MaxEntries)}

NoResult == [status |-> "none", msg |-> NoneV, audios |-> NoneV, files |-> NoneV, outputs |-> NoneV]

\* tts_service.py 319-322: the first value of outputs that is a string with
\* an audio suffix
RECURSIVE ScanOutputs(_)
ScanOutputs(vals) ==
    IF Len(vals) = 0 THEN NoneV
    ELSE IF Head(vals).is_str /\ IsAudioName(Head(vals).v) THEN Some(Head(vals).v)
    ELSE ScanOutputs(Tail(vals))

\* tts_service.py 308-322: audio_path as the if/elif chain leaves it
SelectArtifact(r) ==
    IF FieldLen(r.audios) > 0 THEN Some(r.audios[1][1])
    ELSE IF FieldLen(r.files) > 0 THEN Some(r.files[1][1])
    ELSE IF FieldLen(r.outputs) > 0 THEN ScanOutputs(r.outputs[1])
    ELSE NoneV

\* tts_service.py 301 with only the status "failed" treated as a failure
StatusOkUnlessFailed(r) == r.status # "failed"

\* tts_service.py 301: the status test
StatusOk(r) == r.status = "completed"

\* tts_service.py 289-296: what is handed to the engine for a resolved workflow
WorkflowInput(info) ==
    IF info.source = "runninghub" /\ info.workflow_id # "" THEN info.workflow_id ELSE info.path

\* tts_service.py 329 with every artifact downloaded when output_path is given
NeedsDownloadAnyArtifact(output_path, path) == Truthy(output_path)

\* tts_service.py 329: the download condition
NeedsDownload(output_path, path) == Truthy(output_path) /\ IsUrl(path)

Error(type, text, detail) == [type |-> type, text |-> text, detail |-> detail]
NoError == Error("", "", "")

\* tts_service.py 301-304: the error raised for a result that is not "completed"
GenerationFailed(r) ==
    Error("Exception", "TTS generation failed: {error_msg}",
          IF r.msg # NoneV /\ r.msg[1] # "" THEN r.msg[1] ELSE "Unknown error")

NoAudio == Error("Exception", "No audio file generated by workflow", "")

(***************************************************************************)
(* TTS service: the keyword arguments of a call and the parameter mapping  *)
(* built from them.  A mapping is a function from keys to Optional values: *)
(* NoneV is a key whose value is None.                                     *)
(***************************************************************************)
\* tts_service.py 89-92: the optional named parameters of __call__
OptionalParams == {"voice", "rate", "volume", "pitch"}

\* what a caller may give for an optional named parameter
OptionalValues(p) ==
    CASE p = "voice"  -> {NoneV, Some(""), Some("zh-CN-XiaoxiaoNeural")}
      [] p = "rate"   -> {Some("+20%")}
      [] p = "volume" -> {Some("+10%")}
      [] p = "pitch"  -> {Some("+5Hz")}

\* the optional named parameters a call gives, as keywords
NamedKeywords ==
    UNION {{f \in [K -> UNION {OptionalValues(p) : p \in OptionalParams}] :
                \A p \in K : f[p] \in OptionalValues(p)} : K \in SUBSET OptionalParams}

\* keywords of a call that name no parameter of __call__
ExtraKeywords == {[k \in {} |-> NoneV],
                  [k \in {"speed"} |-> Some("1.5")],
                  [k \in {"speed", "seed"} |-> IF k = "speed" THEN Some("1.5") ELSE NoneV]}

\* the keyword arguments of a call, text, workflow and output_path aside
Keywords == {n @@ e : n \in NamedKeywords, e \in ExtraKeywords}

Texts == {"Hello", ""}

\* tts_service.py 89-92: a named parameter takes the keyword of its name, or
\* its default None
Bound(kw, p) == GetOpt(kw, p)

\* tts_service.py 95: **params collects the keywords that name no parameter
Params(kw) == [k \in DOMAIN kw \ OptionalParams |-> kw[k]]

\* dict.update: the keys of e are set in d, over what d held for them
Update(d, e) == [k \in DOMAIN d \cup DOMAIN e |-> IF k \in DOMAIN e THEN e[k] ELSE d[k]]

\* x or default, for an optional string
OrDefault(x, default) == IF x = NoneV \/ x[1] = "" THEN Some(default) ELSE x

\* tts_service.py 210-218: the keyword arguments of the edge_tts call, the
\* output path aside
EdgeParams(text, voice, rate, volume, pitch, params) ==
    Update([k \in {"text"} \cup OptionalParams |->
               CASE k = "text"   -> Some(text)
                 [] k = "voice"  -> OrDefault(voice, "zh-CN-YunjianNeural")
                 [] k = "rate"   -> OrDefault(rate, "+0%")
                 [] k = "volume" -> OrDefault(volume, "+0%")
                 [] k = "pitch"  -> OrDefault(pitch, "+0Hz")],
           params)

\* the parameter mapping with the optional parameters defaulted as they are
\* for the local synthesis routine
WorkflowParamsDefaulted(text, voice, rate, volume, pitch, params) ==
    EdgeParams(text, voice, rate, volume, pitch, params)

\* tts_service.py 266-280: workflow_params
WorkflowParams(text, voice, rate, volume, pitch, params) ==
    LET p0 == [k \in {"text"} |-> Some(text)]
        p1 == IF voice # NoneV THEN Update(p0, [k \in {"voice"} |-> voice]) ELSE p0
        p2 == IF rate # NoneV THEN Update(p1, [k \in {"rate"} |-> rate]) ELSE p1
        p3 == IF volume # NoneV THEN Update(p2, [k \in {"volume"} |-> volume]) ELSE p2
        p4 == IF pitch # NoneV THEN Update(p3, [k \in {"pitch"} |-> pitch]) ELSE p3
    IN  Update(p4, params)

\* engine results with one artifact at most, listed under audios
ParamResults == {r \in EngineResults :
                    r.files = NoneV /\ r.outputs = NoneV /\ FieldLen(r.audios) <= 1}

(***************************************************************************)
(* TTS service: the call, one action per stretch between two awaits.       *)
(***************************************************************************)
NoArgs == [op |-> "none", workflow |-> NoneV, output_path |-> NoneV, text |-> "",
           kw |-> EmptyDict]
NoResolve == [called |-> FALSE, workflow |-> NoneV, res |-> Resolution("none", "", NoInfo, FALSE)]
NoHttp == [kind |-> "none", status |-> 0, body |-> ""]

HttpAnswers == {[kind |-> "response", status |-> c, body |-> b] :
                    c \in {200, 404, 500}, b \in {"bytes-1", "bytes-2"}}

ConfiguredDefaults == {"edge", "tts_a.json", "nope.json"}
WorkflowDirs == {{"tts_a.json"}, {"tts_a.json", "edge", "edge-tts"}}

TTSIdle ==
    /\ tts_pc = "idle"
    /\ args = NoArgs
    /\ branch = "none"
    /\ resolve_call = NoResolve
    /\ workflow_input = ""
    /\ workflow_params = EmptyDict
    /\ edge_params = EmptyDict
    /\ edge_output = NoneV
    /\ edge_calls = 0
    /\ engine_calls = 0
    /\ downloads = 0
    /\ engine_result = NoResult
    /\ audio_path = NoneV
    /\ http_response = NoHttp
    /\ fault = "none"
    /\ written = NoneV
    /\ returned = NoneV
    /\ raised = NoError

\* the service after construction, for each configuration tried
InitTTS ==
    /\ default_workflow \in ConfiguredDefaults
    /\ workflow_files \in WorkflowDirs
    /\ TTSIdle

\* the service as the other components' specifications hold it
InitTTSIdle ==
    /\ default_workflow = "edge"
    /\ workflow_files = {}
    /\ TTSIdle

\* the call ends: a path is returned, or an error propagates
Ends(path, err) ==
    /\ tts_pc' = "done"
    /\ returned' = path
    /\ raised' = err

\* a direct call of _resolve_workflow (tts_service.py 59-79)
ResolveOnly(workflow) ==
    /\ tts_pc = "idle"
    /\ tts_pc' = "done"
    /\ args' = [NoArgs EXCEPT !.op = "resolve", !.workflow = workflow]
    /\ resolve_call' = [called |-> TRUE, workflow |-> workflow, res |-> ResolveWorkflow(workflow)]
    /\ UNCHANGED <<default_workflow, workflow_files, branch, workflow_input, workflow_params,
                   edge_params, edge_output,
                   edge_calls, engine_calls, downloads, engine_result, audio_path,
                   http_response, fault, written, returned, raised>>
    /\ UNCHANGED <<varsLLM, varsI18n>>

\* __call__ up to its first await (tts_service.py 142-169), through
\* _call_edge_tts 196-210 or _call_comfyui_workflow 258-298
TTSCall(workflow, output_path, text, kw) ==
    /\ tts_pc = "idle"
    /\ args' = [op |-> "call", workflow |-> workflow, output_path |-> output_path,
                text |-> text, kw |-> kw]
    /\ IF IsBuiltinCall(workflow)
       THEN /\ branch' = "edge"
            /\ IF output_path # NoneV /\ MakedirsRaises(Dirname(output_path[1]))
               THEN /\ Ends(NoneV, Error("FileNotFoundError", "makedirs", ""))
                    /\ UNCHANGED <<edge_output, edge_params, edge_calls>>
               ELSE /\ edge_output' = IF output_path = NoneV THEN Some(TempPath) ELSE output_path
                    /\ edge_params' = EdgeParams(text, Bound(kw, "voice"), Bound(kw, "rate"),
                                                 Bound(kw, "volume"), Bound(kw, "pitch"),
                                                 Params(kw))
                    /\ edge_calls' = edge_calls + 1
                    /\ tts_pc' = "await_edge"
                    /\ UNCHANGED <<returned, raised>>
            /\ UNCHANGED <<resolve_call, workflow_input, workflow_params, engine_calls>>
       ELSE LET r == ResolveWorkflow(workflow)
            IN  /\ branch' = "workflow"
                /\ resolve_call' = [called |-> TRUE, workflow |-> workflow, res |-> r]
                /\ IF r.kind = "info"
                   THEN /\ workflow_input' = WorkflowInput(r.info)
                        /\ workflow_params' =
                               WorkflowParams(text, Bound(kw, "voice"), Bound(kw, "rate"),
                                              Bound(kw, "volume"), Bound(kw, "pitch"),
                                              Params(kw))
                        /\ engine_calls' = engine_calls + 1
                        /\ tts_pc' = "await_engine"
                        /\ UNCHANGED <<returned, raised>>
                   ELSE /\ Ends(NoneV, IF r.kind = "error"
                                       THEN Error("Exception", "workflow not found", "")
                                       ELSE Error("TypeError", "workflow_info['key']", ""))
                        /\ UNCHANGED <<workflow_input, workflow_params, engine_calls>>
                /\ UNCHANGED <<edge_output, edge_params, edge_calls>>
    /\ UNCHANGED <<default_workflow, workflow_files, downloads, engine_result, audio_path,
                   http_response, fault, written>>
    /\ UNCHANGED <<varsLLM, varsI18n>>

\* edge_tts returns: tts_service.py 210-221
EdgeReturns ==
    /\ tts_pc = "await_edge"
    /\ written' = Some("edge audio")
    /\ Ends(edge_output, NoError)
    /\ UNCHANGED <<default_workflow, workflow_files, args, branch, resolve_call, workflow_input, workflow_params,
                   edge_params,
                   edge_output, edge_calls, engine_calls, downloads, engine_result,
                   audio_path, http_response, fault>>
    /\ UNCHANGED <<varsLLM, varsI18n>>

\* edge_tts raises: tts_service.py 223-225 with the error logged and the
\* output path returned all the same
EdgeRaisesSwallowed ==
    /\ tts_pc = "await_edge"
    /\ fault' = "edge"
    /\ Ends(edge_output, NoError)
    /\ UNCHANGED <<default_workflow, workflow_files, args, branch, resolve_call, workflow_input, workflow_params,
                   edge_params,
                   edge_output, edge_calls, engine_calls, downloads, engine_result,
                   audio_path, http_response, written>>
    /\ UNCHANGED <<varsLLM, varsI18n>>

\* edge_tts raises: tts_service.py 223-225
EdgeRaises ==
    /\ tts_pc = "await_edge"
    /\ fault' = "edge"
    /\ Ends(NoneV, Error("Exception", "edge_tts", ""))
    /\ UNCHANGED <<default_workflow, workflow_files, args, branch, resolve_call, workflow_input, workflow_params,
                   edge_params,
                   edge_output, edge_calls, engine_calls, downloads, engine_result,
                   audio_path, http_response, written>>
    /\ UNCHANGED <<varsLLM, varsI18n>>

\* kit.execute returns r: tts_service.py 298-348, up to the download's await
EngineReturns(r) ==
    /\ tts_pc = "await_engine"
    /\ engine_result' = r
    /\ IF ~StatusOk(r)
       THEN /\ Ends(NoneV, GenerationFailed(r))
            /\ UNCHANGED <<audio_path, downloads>>
       ELSE LET sel == SelectArtifact(r)
            IN  /\ audio_path' = sel
                /\ IF ~Truthy(sel)
                   THEN /\ Ends(NoneV, NoAudio)
                        /\ UNCHANGED downloads
                   ELSE IF NeedsDownload(args.output_path, sel[1])
                   THEN IF MakedirsRaises(Dirname(args.output_path[1]))
                        THEN /\ Ends(NoneV, Error("FileNotFoundError", "makedirs", ""))
                             /\ UNCHANGED downloads
                        ELSE /\ downloads' = downloads + 1
                             /\ tts_pc' = "await_download"
                             /\ UNCHANGED <<returned, raised>>
                   ELSE /\ Ends(sel, NoError)
                        /\ UNCHANGED downloads
    /\ UNCHANGED <<default_workflow, workflow_files, args, branch, resolve_call, workflow_input, workflow_params,
                   edge_params,
                   edge_output, edge_calls, engine_calls, http_response, fault, written>>
    /\ UNCHANGED <<varsLLM, varsI18n>>

\* kit.execute raises: tts_service.py 350-352
EngineRaises ==
    /\ tts_pc = "await_engine"
    /\ fault' = "engine"
    /\ Ends(NoneV, Error("Exception", "kit.execute", ""))
    /\ UNCHANGED <<default_workflow, workflow_files, args, branch, resolve_call, workflow_input, workflow_params,
                   edge_params,
                   edge_output, edge_calls, engine_calls, downloads, engine_result,
                   audio_path, http_response, written>>
    /\ UNCHANGED <<varsLLM, varsI18n>>

\* the download is answered: tts_service.py 338-345
DownloadResponds(resp) ==
    /\ tts_pc = "await_download"
    /\ http_response' = resp
    /\ IF resp.status = 200
       THEN /\ written' = Some(resp.body)
            /\ Ends(args.output_path, NoError)
       ELSE /\ Ends(NoneV, Error("HTTPStatusError", "raise_for_status", ""))
            /\ UNCHANGED written
    /\ UNCHANGED <<default_workflow, workflow_files, args, branch, resolve_call, workflow_input, workflow_params,
                   edge_params,
                   edge_output, edge_calls, engine_calls, downloads, engine_result,
                   audio_path, fault>>
    /\ UNCHANGED <<varsLLM, varsI18n>>

\* client.get raises (no connection, a timeout): tts_service.py 338, 350-352
DownloadFails ==
    /\ tts_pc = "await_download"
    /\ fault' = "download"
    /\ Ends(NoneV, Error("RequestError", "client.get", ""))
    /\ UNCHANGED <<default_workflow, workflow_files, args, branch, resolve_call, workflow_input, workflow_params,
                   edge_params,
                   edge_output, edge_calls, engine_calls, downloads, engine_result,
                   audio_path, http_response, written>>
    /\ UNCHANGED <<varsLLM, varsI18n>>

(***************************************************************************)
(* Specifications.                                                         *)
(***************************************************************************)
NextLLM ==
    \/ (llm_pc = "idle" /\ \E b \in BaseUrls : TestLLMConnection(b))
    \/ (llm_pc = "fetching" /\ ServerResponds)
    \/ (llm_pc = "fetching" /\ TransportFails)

InitSpecLLM == InitLLM /\ InitI18nIdle /\ InitTTSIdle

SpecLLM == InitSpecLLM /\ [][NextLLM]_vars

NextI18n ==
    \/ \E c \in LangCodes \cup OtherCodes : SetLanguage(c)
    \/ \E k \in AllKeys, fb \in Fallbacks, kw \in KwargSets : Tr(k, fb, kw)
    \/ GetLanguage
    \/ \E c \in {NoneV} \cup {Some(l) : l \in LangCodes \cup OtherCodes} : GetLanguageName(c)
    \/ GetAvailableLanguages

InitSpecI18n == InitI18n /\ InitLLM /\ InitTTSIdle

SpecI18n == InitSpecI18n /\ [][NextI18n]_vars

NextTTS ==
    \/ (tts_pc = "idle" /\ \E w \in Workflows : ResolveOnly(w))
    \/ (tts_pc = "idle" /\ \E w \in Workflows, o \in OutputPaths :
                                TTSCall(w, o, "Hello", EmptyDict))
    \/ EdgeReturns
    \/ EdgeRaises
    \/ (tts_pc = "await_engine" /\ \E r \in EngineResults : EngineReturns(r))
    \/ EngineRaises
    \/ (tts_pc = "await_download" /\ \E resp \in HttpAnswers : DownloadResponds(resp))
    \/ DownloadFails

InitSpecTTS == InitTTS /\ InitLLM /\ InitI18nIdle

SpecTTS == InitSpecTTS /\ [][NextTTS]_vars

\* the same service, called with keyword arguments
NextTTSParams ==
    \/ (tts_pc = "idle" /\ \E w \in Workflows, o \in {NoneV, Some(OutAbsolute)},
                                t \in Texts, kw \in Keywords : TTSCall(w, o, t, kw))
    \/ EdgeReturns
    \/ EdgeRaises
    \/ (tts_pc = "await_engine" /\ \E r \in ParamResults : EngineReturns(r))
    \/ EngineRaises
    \/ (tts_pc = "await_download" /\ \E resp \in HttpAnswers : DownloadResponds(resp))
    \/ DownloadFails

SpecTTSParams == InitSpecTTS /\ [][NextTTSParams]_vars

(***************************************************************************)
(* Properties of the model-discovery client.                               *)
(***************************************************************************)
Failure(text, code) == [raised |-> FALSE, success |-> FALSE, count |-> 0,
                        message |-> Msg(text, code, "")]

\* C7: test_llm_connection never raises; every failure of the fetch gives
\* (false, message, 0) with the message of its class (401, 403, 404, other
\* HTTP status, connection failure, timeout, anything else stringified); and
\* success is reported only when the fetch returned, with the number of
\* models fetched as the count.
ProbeContainsEveryFailure ==
    llm_pc = "done" =>
        /\ ~llm_raised
        /\ (server.kind = "response" /\ server.status = 401
                => probe = Failure("Authentication failed: Invalid API Key", 0))
        /\ (server.kind = "response" /\ server.status = 403
                => probe = Failure("Access forbidden: Check your API Key permissions", 0))
        /\ (server.kind = "response" /\ server.status = 404
                => probe = Failure("API endpoint not found: Check your Base URL", 0))
        /\ (server.kind = "response" /\ server.status \notin {200, 401, 403, 404}
                => probe = Failure("API error: HTTP {status_code}", server.status))
        /\ (server.kind = "ConnectError"
                => probe = Failure("Connection failed: Cannot reach the server", 0))
        /\ (server.kind \in {"ConnectTimeout", "ReadTimeout"}
                => probe = Failure("Connection timeout: Server did not respond in time", 0))
        /\ (server.kind = "ReadError"
                => /\ ~probe.success /\ probe.count = 0
                   /\ probe.message.text = "Error: {str(e)}"
                   /\ probe.message.detail = "ReadError")
        /\ (server.kind = "response" /\ server.status = 200
              /\ (server.body.json = "malformed"
                    \/ \E i \in 1..Len(server.body.data) : server.body.data[i] = NoId)
                => /\ ~probe.success /\ probe.count = 0
                   /\ probe.message.text = "Error: {str(e)}"
                   /\ probe.message.detail # "")
        /\ (probe.success
                => /\ server.kind = "response" /\ server.status = 200
                   /\ server.body.json # "malformed"
                   /\ probe.count = Len(server.body.data))
        /\ (~probe.success => probe.count = 0)

\* C7 witness: the probe has met HTTP 401 and reported it
ProbeSaw401 ==
    /\ llm_pc = "done"
    /\ server.kind = "response" /\ server.status = 401
    /\ probe = Failure("Authentication failed: Invalid API Key", 0)

\* the base without trailing slashes and without a final "/v1"
CoreOf(b) ==
    LET s == RStrip(b, "/")
    IN  IF EndsWith(s, SlashV1) THEN SubSeq(s, 1, Len(s) - Len(SlashV1)) ELSE s

\* C8: the requested endpoint is the base, less trailing slashes and less a
\* final "/v1", followed by "/v1/models": bases that differ only in the "/v1"
\* suffix or a trailing slash give the same endpoint, the endpoint always
\* ends in "/v1/models", and a base ending in "/v1" gets "/models" alone, so
\* no "/v1/v1" is produced that the base did not hold.
ModelsUrlNormalized ==
    llm_pc # "idle" =>
        /\ models_url = CoreOf(base_url) \o SlashV1Models
        /\ EndsWith(models_url, SlashV1Models)
        /\ (EndsWith(RStrip(base_url, "/"), SlashV1)
                => models_url = RStrip(base_url, "/") \o SlashModels)
        /\ (~EndsWith(RStrip(base_url, "/"), SlashV1 \o SlashV1)
                => ~EndsWith(models_url, SlashV1 \o SlashV1Models))

\* C8 witness: a base ending in "/v1/" was normalized
NormalizedV1Slash ==
    /\ llm_pc = "fetching"
    /\ base_url = <<"a", "/", "v", "1", "/">>
    /\ EndsWith(models_url, SlashV1Models)
    /\ Len(models_url) = Len(base_url) - 1 + Len(SlashModels)

(***************************************************************************)
(* Properties of the localization registry.                                *)
(***************************************************************************)
\* the string of key in language lang, if the loaded locales have one
StringIn(lang, key) ==
    IF /\ lang \in DOMAIN locales
       /\ "t" \in DOMAIN locales[lang]
       /\ key \in DOMAIN locales[lang]["t"]
    THEN locales[lang]["t"][key]
    ELSE NoneV

\* C9: without interpolation arguments tr returns the first available of
\* the key's string in the current language, the fallback argument, the
\* key's string in en_US, the key itself; a key present only in en_US, looked
\* up under another language and with no fallback argument, yields the en_US
\* string and not the key; and tr does not raise for a missing key.
TrFallbackChain ==
    (i18n_call.op = "tr" /\ i18n_call.kwargs = EmptyDict) =>
        LET key == i18n_call.key
            cur == StringIn(current_language, key)
            en  == StringIn(DefaultLang, key)
        IN  /\ ~i18n_call.raised
            /\ i18n_call.result =
                  IF cur # NoneV THEN cur[1]
                  ELSE IF i18n_call.fallback # NoneV THEN i18n_call.fallback[1]
                  ELSE IF en # NoneV THEN en[1]
                  ELSE Lit(key)
            /\ ((cur = NoneV /\ en # NoneV /\ current_language # DefaultLang
                        /\ i18n_call.fallback = NoneV)
                    => (i18n_call.result = en[1] /\ i18n_call.result # Lit(key)))

\* C9 witness: a key only en_US defines was looked up under zh_CN with no
\* fallback argument, and the en_US string came back
TrUsedDefaultLanguage ==
    /\ i18n_call.op = "tr" /\ i18n_call.kwargs = EmptyDict
    /\ i18n_call.fallback = NoneV
    /\ current_language = "zh_CN"
    /\ "zh_CN" \in DOMAIN locales
    /\ StringIn("zh_CN", i18n_call.key) = NoneV
    /\ StringIn(DefaultLang, i18n_call.key) = Some(TextOf(DefaultLang, i18n_call.key))
    /\ i18n_call.result = TextOf(DefaultLang, i18n_call.key)

(***************************************************************************)
(* Properties of the TTS service.                                          *)
(***************************************************************************)
\* C1: a workflow identifier that is exactly "edge" or "edge-tts" resolves
\* to itself as the built-in provider without the shared resolution routine
\* being consulted, and a call with it goes to the local synthesis routine
\* and never to the workflow engine, whether or not a workflow file of that
\* name exists; the match is exact, so "Edge" is no built-in.
BuiltinPrecedence ==
    /\ (args.workflow # NoneV /\ args.workflow[1] \in {"edge", "edge-tts"}) =>
            /\ (args.op = "resolve" =>
                    /\ resolve_call.res.kind = "builtin"
                    /\ resolve_call.res.provider = args.workflow[1]
                    /\ ~resolve_call.res.consulted_parent)
            /\ (args.op = "call" =>
                    /\ branch = "edge"
                    /\ engine_calls = 0
                    /\ tts_pc \notin {"await_engine", "await_download"}
                    /\ ~resolve_call.called)
    /\ (args.workflow = Some("Edge") =>
            /\ (args.op = "resolve" => resolve_call.res.consulted_parent)
            /\ (args.op = "call" => branch = "workflow" /\ edge_calls = 0))

\* C1 witness: a call with workflow "edge" was served by the local routine
\* although a workflow file named "edge" exists
EdgeServedDespiteFile ==
    /\ args.op = "call" /\ args.workflow = Some("edge")
    /\ "edge" \in workflow_files
    /\ tts_pc = "done" /\ edge_calls = 1 /\ returned # NoneV

\* C2: a call, or a resolution, with workflow = None does what the same
\* operation does with the configured default: the same branch of __call__,
\* the same resolved target, the same workflow handed to the engine.
NullMeansDefault ==
    args.workflow = NoneV =>
        /\ (args.op = "resolve" => resolve_call.res = ResolveWorkflow(Some(default_workflow)))
        /\ (args.op = "call" =>
                /\ branch = IF default_workflow \in {"edge", "edge-tts"} THEN "edge" ELSE "workflow"
                /\ (branch = "edge" => ~resolve_call.called /\ engine_calls = 0)
                /\ (branch = "workflow" =>
                        /\ resolve_call.res = ResolveWorkflow(Some(default_workflow))
                        /\ (resolve_call.res.kind = "info" =>
                                engine_calls = 1 /\ workflow_input = resolve_call.res.info.key)
                        /\ (resolve_call.res.kind # "info" =>
                                engine_calls = 0 /\ raised # NoError)))

\* C2 witness: a call without workflow reached the engine with the
\* configured default workflow file
NullCallUsedDefaultFile ==
    /\ args.op = "call" /\ args.workflow = NoneV
    /\ default_workflow = "tts_a.json"
    /\ tts_pc = "await_engine" /\ workflow_input = "tts_a.json"

\* the string entries of a completed result in probing order: audios, files,
\* then the values of outputs
RECURSIVE StrValues(_)
StrValues(vals) ==
    IF Len(vals) = 0 THEN <<>>
    ELSE (IF Head(vals).is_str THEN <<Head(vals).v>> ELSE <<>>) \o StrValues(Tail(vals))

ProbeOrder(r) ==
    (IF r.audios = NoneV THEN <<>> ELSE r.audios[1])
    \o (IF r.files = NoneV THEN <<>> ELSE r.files[1])
    \o (IF r.outputs = NoneV THEN <<>> ELSE StrValues(r.outputs[1]))

AudioIndexes(r) == {i \in 1..Len(ProbeOrder(r)) : IsAudioName(ProbeOrder(r)[i])}

\* C3: for a completed result the selected artifact is the first audio-like
\* entry in probing order, the call fails with the no-audio error when there
\* is none, and every selected artifact has an audio extension.
SelectsFirstAudioLike ==
    engine_result.status = "completed" =>
        /\ (AudioIndexes(engine_result) = {} => raised = NoAudio /\ returned = NoneV)
        /\ (AudioIndexes(engine_result) # {} =>
                LET first == CHOOSE i \in AudioIndexes(engine_result) :
                                \A j \in AudioIndexes(engine_result) : i <= j
                IN  audio_path = Some(ProbeOrder(engine_result)[first]))
        /\ (audio_path # NoneV => IsAudioName(audio_path[1]))

\* C4: a result whose status is not "completed" ends the call with the
\* "TTS generation failed" error carrying the engine's message, or "Unknown
\* error" when the message is missing or empty; nothing is probed, returned,
\* downloaded or written, whatever entries the result carries.
EngineFailureRaises ==
    engine_result.status \notin {"none", "completed"} =>
        /\ tts_pc = "done"
        /\ raised.text = "TTS generation failed: {error_msg}"
        /\ raised.detail = IF engine_result.msg = NoneV \/ engine_result.msg = Some("")
                           THEN "Unknown error"
                           ELSE engine_result.msg[1]
        /\ raised # NoAudio
        /\ returned = NoneV
        /\ audio_path = NoneV
        /\ downloads = 0
        /\ http_response = NoHttp
        /\ written = NoneV

\* C4 witness: a result with status "error" and an audio URL, with an
\* output path given, ended in the generation-failed error
FailedResultWithAudio ==
    /\ engine_result.status = "error"
    /\ engine_result.audios = Some(<<UrlMp3>>)
    /\ args.output_path = Some(OutAbsolute)
    /\ raised.text = "TTS generation failed: {error_msg}" /\ raised.detail = "boom"

\* the artifact is a URL and the caller gave a non-empty output path
UrlWithOutputPath ==
    /\ engine_result.status = "completed"
    /\ audio_path # NoneV /\ IsUrl(audio_path[1])
    /\ args.output_path # NoneV /\ args.output_path # Some(<<>>)

\* C5: when the selected artifact is an http:// or https:// URL and the
\* caller supplied an output path, the URL is fetched; on a success status
\* exactly the body is written to the output path, which is returned; on
\* another status the call fails, returning nothing and writing nothing.
DownloadNormalizes ==
    UrlWithOutputPath =>
        /\ downloads = 1
        /\ tts_pc \in {"await_download", "done"}
        /\ (tts_pc = "await_download" => written = NoneV /\ returned = NoneV)
        /\ (http_response.kind = "response" /\ http_response.status = 200 =>
                written = Some(http_response.body) /\ returned = args.output_path
                    /\ raised = NoError)
        /\ (http_response.kind = "response" /\ http_response.status # 200 =>
                written = NoneV /\ returned = NoneV /\ raised # NoError)

\* C6: when the output path is null or empty, or the selected artifact is
\* not an http:// or https:// URL, the selected artifact is returned as it
\* is, nothing is downloaded and nothing is written; with an output path
\* and a local artifact the engine's path is returned, not the output path.
ReturnsAsFound ==
    (/\ engine_result.status = "completed"
     /\ audio_path # NoneV /\ audio_path # Some(<<>>)
     /\ \/ args.output_path = NoneV
        \/ args.output_path = Some(<<>>)
        \/ ~(StartsWith(audio_path[1], Http) \/ StartsWith(audio_path[1], Https)))
    => (/\ tts_pc = "done"
        /\ returned = audio_path
        /\ raised = NoError
        /\ \E i \in 1..Len(ProbeOrder(engine_result)) : ProbeOrder(engine_result)[i] = returned[1]
        /\ downloads = 0
        /\ http_response = NoHttp
        /\ written = NoneV
        /\ (args.output_path = Some(OutAbsolute) => returned # args.output_path))

\* C6 witness: with an output path given, the engine's local path came back
LocalArtifactReturned ==
    /\ args.output_path = Some(OutAbsolute)
    /\ engine_result.status = "completed"
    /\ audio_path = Some(LocalWav)
    /\ returned = Some(LocalWav)

\* C10: a call invokes at most one backend, at most once, and starts at most
\* one download; it ends with a returned path or with a propagated error,
\* never both and never neither; and a failure of resolution, of the local
\* routine, of the engine, of the artifact lookup or of the download
\* propagates, with no path returned.
AtMostOnceAllOrNothing ==
    args.op = "call" =>
        /\ edge_calls + engine_calls <= 1
        /\ downloads <= 1
        /\ (downloads = 1 => engine_calls = 1)
        /\ (branch = "edge" => engine_calls = 0 /\ downloads = 0)
        /\ (branch = "workflow" => edge_calls = 0)
        /\ (tts_pc = "done" => ((returned # NoneV) /\ raised = NoError)
                                  \/ (returned = NoneV /\ raised # NoError))
        /\ (tts_pc # "done" => returned = NoneV /\ raised = NoError)
        /\ ((resolve_call.res.kind = "error"
                \/ fault # "none"
                \/ engine_result.status \notin {"none", "completed"}
                \/ (engine_result.status = "completed" /\ audio_path = NoneV)
                \/ (http_response.kind = "response" /\ http_response.status # 200))
            => (tts_pc = "done" /\ raised # NoError /\ returned = NoneV))

\* C10 witness: the engine ran once, one download was made and failed, and
\* the call ended in an error
DownloadFailedAfterEngine ==
    /\ args.op = "call" /\ tts_pc = "done"
    /\ engine_calls = 1 /\ downloads = 1
    /\ http_response.status = 500
    /\ raised.type = "HTTPStatusError" /\ returned = NoneV

(***************************************************************************)
(* Properties of the workflow parameter mapping.                           *)
(***************************************************************************)
\* the engine was handed a workflow and a parameter mapping by the running call
EngineCalled == args.op = "call" /\ branch = "workflow" /\ engine_calls = 1

\* C11: on the workflow branch the mapping handed to the engine holds text
\* with the text of the call; it holds each of voice, rate, volume and pitch
\* exactly when the call gave a value other than None for it, and then with
\* that value; and it holds every extra keyword with the extra's value,
\* whatever else was set for that key before the merge.
WorkflowParamsMapping ==
    EngineCalled =>
        (/\ "text" \in DOMAIN workflow_params
         /\ workflow_params["text"] = Some(args.text)
         /\ \A p \in OptionalParams :
                /\ (p \in DOMAIN workflow_params) <=> (Bound(args.kw, p) # NoneV)
                /\ (p \in DOMAIN workflow_params) => (workflow_params[p] = Bound(args.kw, p))
         /\ \A k \in DOMAIN Params(args.kw) :
                /\ k \in DOMAIN workflow_params
                /\ workflow_params[k] = Params(args.kw)[k])

\* the engine was handed a mapping for a call that gave an empty voice, no
\* pitch, an explicit rate and an extra whose value is None
OmittedAndMergedParams ==
    /\ EngineCalled
    /\ tts_pc = "await_engine"
    /\ "voice" \in DOMAIN args.kw /\ args.kw["voice"] = Some("")
    /\ "rate" \in DOMAIN args.kw
    /\ "pitch" \notin DOMAIN args.kw
    /\ "seed" \in DOMAIN args.kw
    /\ "voice" \in DOMAIN workflow_params
    /\ "pitch" \notin DOMAIN workflow_params
    /\ "seed" \in DOMAIN workflow_params /\ workflow_params["seed"] = NoneV

(***************************************************************************)
(* Properties of the localization state.                                   *)
(***************************************************************************)
\* one step of the registry: the loaded locales stay as they are; the
\* current language changes only in set_language and only to the code it was
\* given, a loaded one; set_language with a code that is not loaded leaves it
\* as it was; get_language gives the current language
FrameStep ==
    /\ locales' = locales
    /\ (current_language' # current_language) =>
           (/\ i18n_call'.op = "set_language"
            /\ current_language' = i18n_call'.key
            /\ current_language' \in DOMAIN locales)
    /\ (i18n_call'.op = "set_language" /\ i18n_call'.key \notin DOMAIN locales) =>
           (current_language' = current_language)
    /\ (i18n_call'.op # "set_language") => (current_language' = current_language)
    /\ (i18n_call'.op = "get_language") => (i18n_call'.result = Lit(current_language))

\* C12: across set_language, get_language, tr, get_language_name and
\* get_available_languages calls the current language changes only in
\* set_language and only to a loaded locale code, set_language with an unknown
\* code leaves it unchanged, every other operation leaves the current language
\* and the loaded locales unchanged, and the current language (what
\* get_language returns) is always the initial "zh_CN" or a loaded locale code.
LocalizationFrame ==
    /\ [](current_language \in {InitialLang} \cup DOMAIN locales)
    /\ [][FrameStep]_vars

\* the language was switched to a loaded locale and then set_language with a
\* code that is not loaded left it there
UnknownCodeKeptLanguage ==
    /\ i18n_call.op = "set_language"
    /\ i18n_call.key \notin DOMAIN locales
    /\ current_language = DefaultLang
    /\ current_language # InitialLang
    /\ current_language \in DOMAIN locales
    /\ InitialLang \notin DOMAIN locales

=============================================================================
